---- MODULE Spec2Model ----
(***************************************************************************)
(* Model of the ImageCropper component (ImageCropper.jsx), its geometry    *)
(* helpers (imageCropperUtils, shipped in App.jsx) and the FileUpload      *)
(* component.                                                              *)
(*                                                                         *)
(* Numbers: the JavaScript code computes in IEEE doubles.  The model       *)
(* computes the same expressions in exact rational arithmetic (a number is *)
(* a record [n, d] in lowest terms, d > 0), so every statement below is a  *)
(* statement about the formulas of the code, not about rounding.           *)
(***************************************************************************)
EXTENDS Integers, Sequences, FiniteSets, TLC

\* ------------------------------------------------------------------------
\* Exact rational arithmetic
\* ------------------------------------------------------------------------
Abs(i) == IF i < 0 THEN -i ELSE i

RECURSIVE GCD(_, _)
GCD(a, b) == IF b = 0 THEN a ELSE GCD(b, a % b)

\* the rational n/d (d # 0) in lowest terms with a positive denominator
Q(n, d) ==
    IF d = 1 THEN [n |-> n, d |-> 1]
    ELSE LET g == GCD(Abs(n), Abs(d))
             s == IF d < 0 THEN -1 ELSE 1
         IN  [n |-> (s * n) \div g, d |-> (s * d) \div g]

I(i) == [n |-> i, d |-> 1]

\* sums and comparisons over the least common denominator, products with
\* the common factors cancelled first
Add(a, b) ==
    IF a.d = b.d THEN Q(a.n + b.n, a.d)
    ELSE LET g == GCD(a.d, b.d)
         IN  Q(a.n * (b.d \div g) + b.n * (a.d \div g), (a.d \div g) * b.d)
Neg(a) == [n |-> -a.n, d |-> a.d]
Sub(a, b) == Add(a, Neg(b))
Mul(a, b) ==
    IF a.d = 1 /\ b.d = 1 THEN I(a.n * b.n)
    ELSE LET g1 == GCD(Abs(a.n), b.d)
             g2 == GCD(Abs(b.n), a.d)
         IN  [n |-> (a.n \div g1) * (b.n \div g2), d |-> (a.d \div g2) * (b.d \div g1)]
Inv(a) == IF a.n < 0 THEN [n |-> -a.d, d |-> -a.n] ELSE [n |-> a.d, d |-> a.n]
Div(a, b) == Mul(a, Inv(b))
Lt(a, b) ==
    IF a.d = b.d THEN a.n < b.n
    ELSE LET g == GCD(a.d, b.d) IN a.n * (b.d \div g) < b.n * (a.d \div g)
Le(a, b) == ~Lt(b, a)
MathMin(a, b) == IF Le(a, b) THEN a ELSE b
MathMax(a, b) == IF Le(a, b) THEN b ELSE a
MathAbs(a) == [n |-> Abs(a.n), d |-> a.d]

\* ------------------------------------------------------------------------
\* imageCropperUtils
\* ------------------------------------------------------------------------
\* getCanvasAspectRatio(width, height)
getCanvasAspectRatio(width, height) ==
    IF height = I(0) THEN I(1) ELSE Div(width, height)

MIN_CROP_WIDTH == 10

\* getCropWidthLimits(canvasWidth, canvasHeight, aspectRatio)
getCropWidthLimits(canvasWidth, canvasHeight, aspectRatio) ==
    [MIN_CROP_WIDTH |-> I(MIN_CROP_WIDTH),
     MAX_CROP_WIDTH |-> MathMin(canvasWidth, Mul(canvasHeight, aspectRatio))]

\* calculateImageDimensions scaling by the larger of the two scales
calculateImageDimensionsCover(image, canvasWidth, canvasHeight) ==
    LET scale == MathMax(Div(canvasWidth, image.width), Div(canvasHeight, image.height))
        renderWidth == Mul(image.width, scale)
        renderHeight == Mul(image.height, scale)
    IN  [renderWidth |-> renderWidth,
         renderHeight |-> renderHeight,
         offsetX |-> Div(Sub(canvasWidth, renderWidth), I(2)),
         offsetY |-> Div(Sub(canvasHeight, renderHeight), I(2))]

\* calculateImageDimensions(image, canvasWidth, canvasHeight)
calculateImageDimensions(image, canvasWidth, canvasHeight) ==
    LET imageWidth == image.width
        imageHeight == image.height
        widthScale == Div(canvasWidth, imageWidth)
        heightScale == Div(canvasHeight, imageHeight)
        scale == MathMin(widthScale, heightScale)
        renderWidth == Mul(imageWidth, scale)
        renderHeight == Mul(imageHeight, scale)
    IN  [renderWidth |-> renderWidth,
         renderHeight |-> renderHeight,
         offsetX |-> Div(Sub(canvasWidth, renderWidth), I(2)),
         offsetY |-> Div(Sub(canvasHeight, renderHeight), I(2))]

\* calculateCropArea reducing the height without the width
calculateCropAreaKeepWidth(cropWidthState, width, height, aspectRatio) ==
    LET cropHeight == MathMin(height, Div(cropWidthState, aspectRatio))
    IN  [x |-> Div(Sub(width, cropWidthState), I(2)),
         y |-> Div(Sub(height, cropHeight), I(2)),
         width |-> cropWidthState,
         height |-> cropHeight]

\* calculateCropArea(cropWidthState, width, height, aspectRatio)
calculateCropArea(cropWidthState, width, height, aspectRatio) ==
    LET cropHeight0 == Div(cropWidthState, aspectRatio)
        over == Lt(height, cropHeight0)
        cropHeight == IF over THEN height ELSE cropHeight0
        cropWidth == IF over THEN Mul(height, aspectRatio) ELSE cropWidthState
    IN  [x |-> Div(Sub(width, cropWidth), I(2)),
         y |-> Div(Sub(height, cropHeight), I(2)),
         width |-> cropWidth,
         height |-> cropHeight]

\* getCropHandles without the handles of the left and right edges
getCropHandlesSix(cropArea) ==
    << [name |-> "tl", x |-> cropArea.x, y |-> cropArea.y],
       [name |-> "tr", x |-> Add(cropArea.x, cropArea.width), y |-> cropArea.y],
       [name |-> "bl", x |-> cropArea.x, y |-> Add(cropArea.y, cropArea.height)],
       [name |-> "br", x |-> Add(cropArea.x, cropArea.width),
                       y |-> Add(cropArea.y, cropArea.height)],
       [name |-> "t", x |-> Add(cropArea.x, Div(cropArea.width, I(2))), y |-> cropArea.y],
       [name |-> "b", x |-> Add(cropArea.x, Div(cropArea.width, I(2))),
                      y |-> Add(cropArea.y, cropArea.height)] >>

\* getCropHandles(cropArea, cropSettings, resolutionScale)
getCropHandles(cropArea) ==
    << [name |-> "tl", x |-> cropArea.x, y |-> cropArea.y],
       [name |-> "tr", x |-> Add(cropArea.x, cropArea.width), y |-> cropArea.y],
       [name |-> "bl", x |-> cropArea.x, y |-> Add(cropArea.y, cropArea.height)],
       [name |-> "br", x |-> Add(cropArea.x, cropArea.width),
                       y |-> Add(cropArea.y, cropArea.height)],
       [name |-> "t", x |-> Add(cropArea.x, Div(cropArea.width, I(2))), y |-> cropArea.y],
       [name |-> "b", x |-> Add(cropArea.x, Div(cropArea.width, I(2))),
                      y |-> Add(cropArea.y, cropArea.height)],
       [name |-> "l", x |-> cropArea.x, y |-> Add(cropArea.y, Div(cropArea.height, I(2)))],
       [name |-> "r", x |-> Add(cropArea.x, cropArea.width),
                      y |-> Add(cropArea.y, Div(cropArea.height, I(2)))] >>

\* ------------------------------------------------------------------------
\* ImageCropper: props and state
\* ------------------------------------------------------------------------
\* bounds of the exploration: pointer positions lie on a grid of GridX by
\* GridY cells over the canvas, and crops are followed while the denominators
\* of their pixel coordinates stay within 2^FracBits
GridX == 2
GridY == 2
FracBits == 1

\* the width and height props the exploration mounts the component with
CanvasSizes == {[width |-> I(800), height |-> I(400)]}
\* the image: its natural size, and whether the browser has it decoded when
\* the src is set (complete at once) or not (complete at the load event)
ImageSizes == [width : {I(1800)}, height : {I(400)}, cached : BOOLEAN]
\* values of the colour input
Colors == {"#ffffff", "#000000"}

\* the cropSettings prop, with the defaults of the component
Settings(enabled, slider) ==
    [enabled |-> enabled, slider |-> slider,
     cropBoxStrokeColor |-> "#0072BC", cropBoxStrokeWidth |-> 4,
     handleFillColor |-> "#0072BC", handleStrokeColor |-> "#0072BC",
     handleSize |-> 16]

\* the resolutionScale prop
resolutionScale == 4

VARIABLES
    width,            \* prop
    height,           \* prop
    cropSettings,     \* prop
    hasOnChange,      \* whether the onChange prop is given
    image,            \* natural size of the image behind imageRef
    imageComplete,    \* imageRef.current.complete
    mounted,          \* the mount effects have run
    onloadPending,    \* imageRef.current.onload is still to fire
    crop,             \* useState: crop, in percent of the canvas
    zoom,             \* useState: zoom
    interaction,      \* useState: interaction
    backgroundColor,  \* useState: backgroundColor
    cursor,           \* canvas.style.cursor
    canvas,           \* what the canvas shows
    lastChange        \* the argument of the latest onChange call

cropperVars == <<width, height, cropSettings, hasOnChange, image, imageComplete, mounted,
                 onloadPending, crop, zoom, interaction, backgroundColor, cursor, canvas,
                 lastChange>>

props == <<width, height, cropSettings, hasOnChange, image>>

\* FileUpload
VARIABLES
    allowedTypes,     \* prop
    customValidator,  \* prop: "null", or the name of a validator
    files,            \* prop: the list the parent passes
    selectedFiles,    \* useState: selectedFiles
    error,            \* useState: error
    reported,         \* the argument of the latest onFilesChange call
    notified,         \* the latest handler called onFilesChange
    event,            \* the latest event, with selectedFiles as it found them
    nextId            \* identity of the next File object

uploadVars == <<allowedTypes, customValidator, files, selectedFiles, error, reported,
                notified, event, nextId>>

\* a call of a geometry helper
VARIABLES
    call,             \* the function called and its arguments
    returned,         \* the call has returned
    result            \* what it returned

pureVars == <<call, returned, result>>

vars == <<cropperVars, uploadVars, pureVars>>

NoInteraction == [type |-> "null", handle |-> "", startX |-> I(0), startY |-> I(0)]
ZeroRect == [x |-> I(0), y |-> I(0), width |-> I(0), height |-> I(0)]
\* useState({ x: 0, y: 0, width: 50, height: 50 })
InitialCrop == [x |-> I(0), y |-> I(0), width |-> I(50), height |-> I(50)]

aspectRatio == getCanvasAspectRatio(width, height)
Limits == getCropWidthLimits(width, height, aspectRatio)

\* getPixelCrop for the crop state c
getPixelCrop(c) ==
    [x |-> Mul(Div(c.x, I(100)), width),
     y |-> Mul(Div(c.y, I(100)), height),
     width |-> Mul(Div(c.width, I(100)), width),
     height |-> Mul(Div(c.height, I(100)), height)]

\* the percent crop the handlers store for a pixel rectangle
ToPercent(r) ==
    [x |-> Mul(Div(r.x, width), I(100)),
     y |-> Mul(Div(r.y, height), I(100)),
     width |-> Mul(Div(r.width, width), I(100)),
     height |-> Mul(Div(r.height, height), I(100))]

\* renderCanvas: the rectangle the image is drawn into,
\* ctx.drawImage(image, zoomedOffsetX, zoomedOffsetY, zoomedWidth, zoomedHeight)
DrawRect(img, canvasWidth, canvasHeight, z) ==
    LET dims == calculateImageDimensions(img, canvasWidth, canvasHeight)
        zoomedWidth == Mul(dims.renderWidth, z)
        zoomedHeight == Mul(dims.renderHeight, z)
        zoomedOffsetX == Add(dims.offsetX, Div(Sub(dims.renderWidth, zoomedWidth), I(2)))
        zoomedOffsetY == Add(dims.offsetY, Div(Sub(dims.renderHeight, zoomedHeight), I(2)))
    IN  [x |-> zoomedOffsetX, y |-> zoomedOffsetY,
         width |-> zoomedWidth, height |-> zoomedHeight]

\* SourceRect measuring from the offset of the image before it is zoomed
SourceRectUnzoomedOffset(pixelCrop, img, canvasWidth, canvasHeight, z) ==
    LET dims == calculateImageDimensions(img, canvasWidth, canvasHeight)
        scaleX == Div(img.width, dims.renderWidth)
        scaleY == Div(img.height, dims.renderHeight)
    IN  [x |-> Mul(Div(Sub(pixelCrop.x, dims.offsetX), z), scaleX),
         y |-> Mul(Div(Sub(pixelCrop.y, dims.offsetY), z), scaleY),
         width |-> Mul(Div(pixelCrop.width, z), scaleX),
         height |-> Mul(Div(pixelCrop.height, z), scaleY)]

\* triggerOnChange: the rectangle cut from the image at native resolution,
\* ctx.drawImage(image, srcX, srcY, srcWidth, srcHeight, 0, 0, width, height)
SourceRect(pixelCrop, img, canvasWidth, canvasHeight, z) ==
    LET dims == calculateImageDimensions(img, canvasWidth, canvasHeight)
        zoomedWidth == Mul(dims.renderWidth, z)
        zoomedHeight == Mul(dims.renderHeight, z)
        zoomedOffsetX == Add(dims.offsetX, Div(Sub(dims.renderWidth, zoomedWidth), I(2)))
        zoomedOffsetY == Add(dims.offsetY, Div(Sub(dims.renderHeight, zoomedHeight), I(2)))
        scaleX == Div(img.width, dims.renderWidth)
        scaleY == Div(img.height, dims.renderHeight)
    IN  [x |-> Mul(Div(Sub(pixelCrop.x, zoomedOffsetX), z), scaleX),
         y |-> Mul(Div(Sub(pixelCrop.y, zoomedOffsetY), z), scaleY),
         width |-> Mul(Div(pixelCrop.width, z), scaleX),
         height |-> Mul(Div(pixelCrop.height, z), scaleY)]

\* The canvas and the cropped image are pictures.  A picture is recorded by
\* the state of the render that painted it: the fill, the zoom the image was
\* drawn with (DrawRect and SourceRect give the rectangles) and the crop.
BlankCanvas ==
    [painted |-> FALSE, fill |-> "", zoom |-> I(1), boxShown |-> FALSE, box |-> ZeroRect]

\* renderCanvas in the render with state (c, z, bg)
renderCanvas(c, z, bg) ==
    [painted |-> TRUE,
     fill |-> bg,
     zoom |-> z,
     boxShown |-> cropSettings.enabled,
     box |-> IF cropSettings.enabled THEN c ELSE ZeroRect]

\* cropCanvas.toDataURL() in the render with state (c, z, bg)
CroppedImage(c, z, bg) == [fill |-> bg, zoom |-> z, crop |-> c]

NoChange == [croppedImage |-> CroppedImage(ZeroRect, I(1), "")]

\* triggerOnChange: the object handed to onChange,
\* { ...cropSettings, croppedImage, zoomLevel, backgroundColor }
ChangePayload(c, z, bg) ==
    [k \in DOMAIN cropSettings \cup {"croppedImage", "zoomLevel", "backgroundColor"} |->
        CASE k = "croppedImage" -> CroppedImage(c, z, bg)
          [] k = "zoomLevel" -> z
          [] k = "backgroundColor" -> bg
          [] OTHER -> cropSettings[k]]

\* triggerOnChange gets past its early return
Emits(complete) == hasOnChange /\ complete /\ cropSettings.enabled

\* the effect on [crop, zoom, backgroundColor]: renderCanvas(); triggerOnChange()
\* in the render with state (c, z, bg), the image being complete or not
RedrawAndEmit(c, z, bg, complete) ==
    /\ canvas' = IF complete THEN renderCanvas(c, z, bg) ELSE canvas
    /\ lastChange' = IF Emits(complete) THEN ChangePayload(c, z, bg) ELSE lastChange

\* a step after which the effect does not run
NoEffect == UNCHANGED <<canvas, lastChange>>

\* ------------------------------------------------------------------------
\* ImageCropper: pointer geometry
\* ------------------------------------------------------------------------
\* the pointer is over the handle h (handleMouseDown, updateCursor)
OnHandle(x, y, h) ==
    LET handleSize == Div(I(cropSettings.handleSize), I(resolutionScale))
    IN  /\ Lt(MathAbs(Sub(x, h.x)), handleSize)
        /\ Lt(MathAbs(Sub(y, h.y)), handleSize)

\* the pointer is inside the crop rectangle (handleMouseDown, updateCursor)
InsideCrop(x, y, pixelCrop) ==
    /\ Le(pixelCrop.x, x)
    /\ Le(x, Add(pixelCrop.x, pixelCrop.width))
    /\ Le(pixelCrop.y, y)
    /\ Le(y, Add(pixelCrop.y, pixelCrop.height))

\* the for loop over the handles: the name of the first handle under the
\* pointer, "" when there is none
FirstHit(x, y, handles) ==
    LET hit == {i \in DOMAIN handles : OnHandle(x, y, handles[i])}
    IN  IF hit = {} THEN ""
        ELSE handles[CHOOSE i \in hit : \A j \in hit : i <= j].name

\* the names resizeCrop's handlers object has a rule for
HandlerNames == {"br", "tl", "tr", "bl", "t", "b", "l", "r"}

\* resizeCrop(x, y, pixelCrop, handle, canvasWidth, canvasHeight, aspectRatio,
\*            minCropWidth, maxCropWidth)
resizeCrop(x, y, pixelCrop, handle, canvasWidth, canvasHeight, ratio, minCropWidth, maxCropWidth) ==
    LET right == Add(pixelCrop.x, pixelCrop.width)
        bottom == Add(pixelCrop.y, pixelCrop.height)
        \* br, tr, r: width from the left edge to the pointer
        widthE == MathMax(minCropWidth,
                          MathMin(Sub(x, pixelCrop.x), Sub(canvasWidth, pixelCrop.x)))
        \* tl, bl, l: width from the pointer to the right edge
        widthW == MathMax(minCropWidth, MathMin(Sub(right, x), right))
        \* t: height from the pointer to the bottom edge
        heightN == MathMax(Div(minCropWidth, ratio), MathMin(Sub(bottom, y), bottom))
        \* b: height from the top edge to the pointer
        heightS == MathMax(Div(minCropWidth, ratio),
                           MathMin(Sub(y, pixelCrop.y), Sub(canvasHeight, pixelCrop.y)))
    IN  CASE handle = "br" ->
                [x |-> pixelCrop.x, y |-> pixelCrop.y,
                 width |-> widthE, height |-> Div(widthE, ratio)]
          [] handle = "tl" ->
                [x |-> Sub(right, widthW), y |-> Sub(bottom, Div(widthW, ratio)),
                 width |-> widthW, height |-> Div(widthW, ratio)]
          [] handle = "tr" ->
                [x |-> pixelCrop.x, y |-> Sub(bottom, Div(widthE, ratio)),
                 width |-> widthE, height |-> Div(widthE, ratio)]
          [] handle = "bl" ->
                [x |-> Sub(right, widthW), y |-> pixelCrop.y,
                 width |-> widthW, height |-> Div(widthW, ratio)]
          [] handle = "t" ->
                [x |-> Add(pixelCrop.x,
                           Div(Sub(pixelCrop.width, Mul(heightN, ratio)), I(2))),
                 y |-> y,
                 width |-> Mul(heightN, ratio), height |-> heightN]
          [] handle = "b" ->
                [x |-> Add(pixelCrop.x,
                           Div(Sub(pixelCrop.width, Mul(heightS, ratio)), I(2))),
                 y |-> pixelCrop.y,
                 width |-> Mul(heightS, ratio), height |-> heightS]
          [] handle = "l" ->
                [x |-> x,
                 y |-> Add(pixelCrop.y,
                           Div(Sub(pixelCrop.height, Div(widthW, ratio)), I(2))),
                 width |-> widthW, height |-> Div(widthW, ratio)]
          [] handle = "r" ->
                [x |-> pixelCrop.x,
                 y |-> Add(pixelCrop.y,
                           Div(Sub(pixelCrop.height, Div(widthE, ratio)), I(2))),
                 width |-> widthE, height |-> Div(widthE, ratio)]
          [] OTHER -> pixelCrop

\* the drag branch of handleMouseMove: the setCrop updater applied to prev
DragCrop(prev, x, y) ==
    LET dx == Mul(Div(Sub(x, interaction.startX), width), I(100))
        dy == Mul(Div(Sub(y, interaction.startY), height), I(100))
        newX == MathMax(I(0), MathMin(Add(prev.x, dx), Sub(I(100), prev.width)))
        newY == MathMax(I(0), MathMin(Add(prev.y, dy), Sub(I(100), prev.height)))
    IN  [prev EXCEPT !.x = newX, !.y = newY]

\* updateCursor(x, y)
updateCursor(x, y) ==
    LET pixelCrop == getPixelCrop(crop)
        cursorMap == [tl |-> "nwse-resize", br |-> "nwse-resize",
                      tr |-> "nesw-resize", bl |-> "nesw-resize",
                      l |-> "ew-resize", r |-> "ew-resize",
                      t |-> "ns-resize", b |-> "ns-resize"]
        name == FirstHit(x, y, getCropHandles(pixelCrop))
    IN  IF name # ""
        THEN cursorMap[name]
        ELSE IF InsideCrop(x, y, pixelCrop) THEN "move" ELSE "default"

\* pointer positions the exploration offers
GridPoints ==
    {[x |-> Div(Mul(I(i), width), I(GridX)), y |-> Div(Mul(I(j), height), I(GridY))] :
        i \in 0..GridX, j \in 0..GridY}

\* the middle of the canvas
CoarsePoints ==
    {[x |-> Div(width, I(2)), y |-> Div(height, I(2))]}

\* coordinates are followed down to 1/2^FracBits of a pixel
Tracked(r) ==
    \A f \in {"x", "y", "width", "height"} : r[f].d <= 2 ^ FracBits

NoEvent == [op |-> "mount", newFiles |-> <<>>, before |-> <<>>]
NoCall == [fn |-> "none"]

\* ------------------------------------------------------------------------
\* ImageCropper: one action per handler
\* ------------------------------------------------------------------------
\* the effects of the first commit: initialise the crop, set the image's src,
\* redraw and emit.  The image is complete at once when the browser has it
\* at hand, and not until the load event otherwise.
Mount ==
    /\ ~mounted
    /\ imageComplete' = image.cached
    /\ crop' = IF cropSettings.enabled
               THEN ToPercent(calculateCropArea(Div(width, I(2)), width, height, aspectRatio))
               ELSE crop
    /\ RedrawAndEmit(crop', zoom, backgroundColor, image.cached)
    /\ mounted' = TRUE
    /\ onloadPending' = TRUE
    /\ UNCHANGED <<uploadVars, pureVars, props, zoom, interaction, backgroundColor,
                   cursor>>

\* imageRef.current.onload: renderCanvas() of the render that set the handler,
\* the first one
ImageLoad ==
    /\ mounted /\ onloadPending
    /\ imageComplete' = TRUE
    /\ onloadPending' = FALSE
    /\ canvas' = renderCanvas(InitialCrop, I(1), "#ffffff")
    /\ UNCHANGED <<uploadVars, pureVars, props, mounted, crop, zoom, interaction,
                   backgroundColor, cursor, lastChange>>

\* handleMouseDown
handleMouseDown(x, y) ==
    LET pixelCrop == getPixelCrop(crop)
        name == FirstHit(x, y, getCropHandles(pixelCrop))
    IN  /\ mounted
        /\ interaction' =
             IF ~cropSettings.enabled THEN interaction
             ELSE IF name # ""
             THEN [type |-> "resize", handle |-> name, startX |-> x, startY |-> y]
             ELSE IF InsideCrop(x, y, pixelCrop)
             THEN [type |-> "drag", handle |-> "", startX |-> x, startY |-> y]
             ELSE interaction
        /\ NoEffect
            /\ UNCHANGED <<uploadVars, pureVars, props, imageComplete, mounted,
                       onloadPending, crop, zoom, backgroundColor, cursor>>

\* handleMouseMove without the test of interaction: a move with no
\* interaction drags
handleMouseMoveUnguarded(x, y) ==
    /\ mounted
    /\ IF interaction.type = "resize"
       THEN /\ crop' = ToPercent(resizeCrop(x, y, getPixelCrop(crop), interaction.handle,
                                            width, height, aspectRatio,
                                            Limits.MIN_CROP_WIDTH, Limits.MAX_CROP_WIDTH))
            /\ RedrawAndEmit(crop', zoom, backgroundColor, imageComplete)
            /\ UNCHANGED <<interaction, cursor>>
       ELSE /\ crop' = DragCrop(crop, x, y)
            /\ interaction' = [interaction EXCEPT !.startX = x, !.startY = y]
            /\ RedrawAndEmit(crop', zoom, backgroundColor, imageComplete)
            /\ UNCHANGED cursor
    /\ Tracked(getPixelCrop(crop'))
    /\ UNCHANGED <<uploadVars, pureVars, props, imageComplete, mounted, onloadPending,
                   zoom, backgroundColor>>

\* handleMouseMove
handleMouseMove(x, y) ==
    /\ mounted
    /\ IF interaction.type = "drag"
       THEN /\ crop' = DragCrop(crop, x, y)
            /\ interaction' = [interaction EXCEPT !.startX = x, !.startY = y]
            /\ RedrawAndEmit(crop', zoom, backgroundColor, imageComplete)
            /\ UNCHANGED cursor
       ELSE IF interaction.type = "resize"
       THEN /\ crop' = ToPercent(resizeCrop(x, y, getPixelCrop(crop), interaction.handle,
                                            width, height, aspectRatio,
                                            Limits.MIN_CROP_WIDTH, Limits.MAX_CROP_WIDTH))
            /\ RedrawAndEmit(crop', zoom, backgroundColor, imageComplete)
            /\ UNCHANGED <<interaction, cursor>>
       ELSE /\ cursor' = updateCursor(x, y)
            /\ NoEffect
            /\ UNCHANGED <<crop, interaction>>
    /\ Tracked(getPixelCrop(crop'))
    /\ UNCHANGED <<uploadVars, pureVars, props, imageComplete, mounted, onloadPending,
                   zoom, backgroundColor>>

\* handleMouseUp, bound to onMouseUp and to onMouseLeave
handleMouseUp ==
    /\ mounted
    /\ interaction' = NoInteraction
    /\ cursor' = "default"
    /\ NoEffect
    /\ UNCHANGED <<uploadVars, pureVars, props, imageComplete, mounted, onloadPending,
                   crop, zoom, backgroundColor>>

\* setZoom(z): the effect runs when the state changed
SetZoom(z) ==
    /\ mounted
    /\ zoom' = z
    /\ IF z # zoom
       THEN RedrawAndEmit(crop, z, backgroundColor, imageComplete)
       ELSE NoEffect
    /\ UNCHANGED <<uploadVars, pureVars, props, imageComplete, mounted, onloadPending,
                   crop, interaction, backgroundColor, cursor>>

\* handleZoomIn
handleZoomIn == SetZoom(MathMin(Add(zoom, Q(1, 10)), I(3)))

\* handleZoomOut
handleZoomOut == SetZoom(MathMax(Sub(zoom, Q(1, 10)), Q(1, 2)))

\* handleBackgroundColorChange: the colour input reports a new value
handleBackgroundColorChange(value) ==
    /\ mounted
    /\ value # backgroundColor
    /\ backgroundColor' = value
    /\ RedrawAndEmit(crop, zoom, value, imageComplete)
    /\ UNCHANGED <<uploadVars, pureVars, props, imageComplete, mounted, onloadPending,
                   crop, zoom, interaction, cursor>>

\* values of the range input: min = MIN_CROP_WIDTH, max = MAX_CROP_WIDTH, step 1
SliderValues ==
    {v \in {I(MIN_CROP_WIDTH)} \cup {Div(Mul(I(i), width), I(GridX)) : i \in 1..GridX} :
        /\ v.d = 1
        /\ Le(Limits.MIN_CROP_WIDTH, v)
        /\ Le(v, Limits.MAX_CROP_WIDTH)}

\* handleCropWidthChangeBySlider
handleCropWidthChangeBySlider(pixelWidth) ==
    /\ mounted
    /\ cropSettings.slider
    /\ crop' = ToPercent(calculateCropArea(pixelWidth, width, height, aspectRatio))
    /\ RedrawAndEmit(crop', zoom, backgroundColor, imageComplete)
    /\ UNCHANGED <<uploadVars, pureVars, props, imageComplete, mounted, onloadPending,
                   zoom, interaction, backgroundColor, cursor>>

\* pointer events on the grid
MouseDown == \E p \in GridPoints : handleMouseDown(p.x, p.y)
MouseMove == \E p \in GridPoints : handleMouseMove(p.x, p.y)
\* pointer events on the coarse set
MouseDownCoarse == \E p \in CoarsePoints : handleMouseDown(p.x, p.y)
MouseMoveCoarse == \E p \in CoarsePoints : handleMouseMove(p.x, p.y)
ColorChange == \E value \in Colors : handleBackgroundColorChange(value)
SliderChange == \E v \in SliderValues : handleCropWidthChangeBySlider(v)
SliderChangeCoarse ==
    \E v \in {I(MIN_CROP_WIDTH), width} : handleCropWidthChangeBySlider(v)

\* ------------------------------------------------------------------------
\* FileUpload
\* ------------------------------------------------------------------------
\* bounds of the exploration: the maxFiles prop FileUpload is mounted with,
\* the files of one selection, and the files picked in one run
maxFiles == 3
MaxSelection == 2
MaxPicked == 4

\* the maxFileSize prop: 10 MB
maxFileSize == 10 * 1024 * 1024

\* the File objects a selection can hold: a type, a size, and whether the
\* custom validator objects to the file
FileKinds ==
    [type : {"image/png", "text/plain"},
     size : {maxFileSize, maxFileSize + 1},
     flagged : BOOLEAN]

\* a customValidator: an error for the files it objects to, null ("") otherwise
CustomError(file) ==
    IF customValidator # "null" /\ file.flagged THEN "File is not accepted." ELSE ""

\* validateFile rejecting a file of exactly maxFileSize
validateFileStrict(file) ==
    IF Len(allowedTypes) # 0 /\ file.type \notin {allowedTypes[i] : i \in DOMAIN allowedTypes}
    THEN "File type \"" \o file.type \o "\" is not allowed."
    ELSE IF file.size >= maxFileSize
    THEN "File size exceeds 10.00 MB."
    ELSE CustomError(file)

\* validateFile: the error message, "" for null
validateFile(file) ==
    IF Len(allowedTypes) # 0 /\ file.type \notin {allowedTypes[i] : i \in DOMAIN allowedTypes}
    THEN "File type \"" \o file.type \o "\" is not allowed."
    ELSE IF file.size > maxFileSize
    THEN "File size exceeds 10.00 MB."
    ELSE CustomError(file)

\* Array.prototype.join
RECURSIVE Join(_, _)
Join(strings, separator) ==
    IF Len(strings) = 0 THEN ""
    ELSE IF Len(strings) = 1 THEN strings[1]
    ELSE strings[1] \o separator \o Join(Tail(strings), separator)

\* the for loop of handleFileChange: the errors and the valid files, in order
RECURSIVE Validate(_)
Validate(newFiles) ==
    IF Len(newFiles) = 0
    THEN [newErrors |-> <<>>, newValidFiles |-> <<>>]
    ELSE LET rest == Validate(Tail(newFiles))
             err == validateFile(Head(newFiles))
         IN  IF err # ""
             THEN [rest EXCEPT !.newErrors = <<err>> \o @]
             ELSE [rest EXCEPT !.newValidFiles = <<Head(newFiles)>> \o @]

TooManyMessage == "You can only upload up to " \o ToString(maxFiles) \o " files."

\* selections of n new File objects
Selections(n) ==
    {[i \in 1..n |-> [id |-> nextId + i - 1, type |-> kinds[i].type, size |-> kinds[i].size,
                      flagged |-> kinds[i].flagged]] : kinds \in [1..n -> FileKinds]}

\* the limit test counting the new files alone
ExceedsMaxFilesNewOnly(newFiles) == Len(newFiles) > maxFiles

\* handleFileChange: (selectedFiles.length + newFiles.length) > maxFiles
ExceedsMaxFiles(newFiles) == Len(selectedFiles) + Len(newFiles) > maxFiles

\* handleFileChange; the parent passes the list of onFilesChange back as the
\* files prop, and the effect on [files] stores it in selectedFiles
handleFileChange(newFiles) ==
    LET checked == Validate(newFiles)
        updatedFiles == selectedFiles \o checked.newValidFiles
    IN  /\ event' = [op |-> "select", newFiles |-> newFiles, before |-> selectedFiles]
        /\ nextId' = nextId + Len(newFiles)
        /\ IF ExceedsMaxFiles(newFiles)
           THEN /\ error' = TooManyMessage
                /\ notified' = FALSE
                /\ UNCHANGED <<files, selectedFiles, reported>>
           ELSE /\ error' = IF Len(checked.newErrors) # 0
                            THEN Join(checked.newErrors, ", ")
                            ELSE ""
                /\ notified' = TRUE
                /\ reported' = updatedFiles
                /\ files' = updatedFiles
                /\ selectedFiles' = files'
        /\ UNCHANGED <<cropperVars, pureVars, allowedTypes, customValidator>>

\* handleRemoveFile
handleRemoveFile(fileToRemove) ==
    LET updatedFiles == SelectSeq(selectedFiles, LAMBDA file : file # fileToRemove)
    IN  /\ event' = [op |-> "remove", newFiles |-> <<>>, before |-> selectedFiles]
        /\ notified' = TRUE
        /\ reported' = updatedFiles
        /\ files' = updatedFiles
        /\ selectedFiles' = files'
        /\ UNCHANGED <<cropperVars, pureVars, allowedTypes, customValidator, error, nextId>>

SelectFiles ==
    \E n \in 0..MaxSelection :
        /\ nextId + n - 1 <= MaxPicked
        /\ \E newFiles \in Selections(n) : handleFileChange(newFiles)

RemoveFile == \E i \in DOMAIN selectedFiles : handleRemoveFile(selectedFiles[i])

\* ------------------------------------------------------------------------
\* The geometry helpers applied to arguments of their whole domain
\* ------------------------------------------------------------------------
Lengths == {I(1), I(3), I(300), I(400), I(900), I(1800)}
Sizes == [width : Lengths, height : Lengths]
Zooms == {Q(1, 2), I(1), Q(11, 10), I(3)}
\* requested crop widths: below, at and above what the area can hold
CropWidths == {I(1), I(10), I(150), I(450), I(900), I(2000)}
Rects == {[x |-> I(0), y |-> I(0), width |-> I(400), height |-> I(300)],
          [x |-> I(225), y |-> I(100), width |-> I(450), height |-> I(200)],
          [x |-> Q(35, 2), y |-> I(7), width |-> I(10), height |-> Q(40, 9)],
          [x |-> I(890), y |-> Q(3560, 9), width |-> I(10), height |-> Q(40, 9)],
          [x |-> I(3), y |-> I(5), width |-> I(7), height |-> I(11)]}

Calls ==
    [fn : {"calculateImageDimensions"}, image : Sizes, canvas : Sizes]
    \cup [fn : {"calculateCropArea"}, cropWidth : CropWidths, canvas : Sizes]
    \cup [fn : {"getCropHandles"}, cropArea : Rects]
    \cup [fn : {"sourceRect"}, image : {sz \in Sizes : sz.width # sz.height},
          canvas : {[width |-> I(900), height |-> I(400)], [width |-> I(400), height |-> I(400)]},
          zoom : Zooms, pixelCrop : Rects]

CallImageDimensions ==
    /\ call.fn = "calculateImageDimensions" /\ ~returned
    /\ result' = calculateImageDimensions(call.image, call.canvas.width, call.canvas.height)
    /\ returned' = TRUE
    /\ UNCHANGED <<cropperVars, uploadVars, call>>

\* as the component calls it: the aspect ratio is the canvas's
CallCropArea ==
    /\ call.fn = "calculateCropArea" /\ ~returned
    /\ result' = calculateCropArea(call.cropWidth, call.canvas.width, call.canvas.height,
                     getCanvasAspectRatio(call.canvas.width, call.canvas.height))
    /\ returned' = TRUE
    /\ UNCHANGED <<cropperVars, uploadVars, call>>

CallCropHandles ==
    /\ call.fn = "getCropHandles" /\ ~returned
    /\ result' = getCropHandles(call.cropArea)
    /\ returned' = TRUE
    /\ UNCHANGED <<cropperVars, uploadVars, call>>

\* the source rectangle of triggerOnChange and the rectangle renderCanvas draws
\* the image into, for the same image, canvas and zoom
CallSourceRect ==
    /\ call.fn = "sourceRect" /\ ~returned
    /\ result' = [src |-> SourceRect(call.pixelCrop, call.image, call.canvas.width,
                                     call.canvas.height, call.zoom),
                  draw |-> DrawRect(call.image, call.canvas.width, call.canvas.height,
                                    call.zoom)]
    /\ returned' = TRUE
    /\ UNCHANGED <<cropperVars, uploadVars, call>>

\* ------------------------------------------------------------------------
\* Specifications
\* ------------------------------------------------------------------------
\* ImageCropper, every handler, the pointer at the middle of the canvas
Init ==
    /\ \E size \in CanvasSizes : width = size.width /\ height = size.height
    /\ cropSettings \in {Settings(TRUE, TRUE), Settings(FALSE, TRUE)}
    /\ hasOnChange = TRUE
    /\ image \in ImageSizes
    /\ imageComplete = TRUE        \* new Image() without a src
    /\ mounted = FALSE
    /\ onloadPending = FALSE
    /\ crop = InitialCrop
    /\ zoom = I(1)
    /\ interaction = NoInteraction
    /\ backgroundColor = "#ffffff"
    /\ cursor = "default"
    /\ canvas = BlankCanvas
    /\ lastChange = NoChange
    /\ allowedTypes = <<>>
    /\ customValidator = "null"
    /\ files = <<>>
    /\ selectedFiles = <<>>
    /\ error = ""
    /\ reported = <<>>
    /\ notified = FALSE
    /\ event = NoEvent
    /\ nextId = 1
    /\ call = NoCall
    /\ returned = FALSE
    /\ result = ZeroRect

Next ==
    \/ Mount
    \/ ImageLoad
    \/ MouseDownCoarse
    \/ MouseMoveCoarse
    \/ handleMouseUp
    \/ handleZoomIn
    \/ handleZoomOut
    \/ ColorChange
    \/ SliderChangeCoarse

Spec == Init /\ [][Next]_vars

\* ImageCropper with cropping enabled and an image complete at the mount:
\* the handlers that move the crop, pointer positions from the grid
GeometryInit ==
    /\ \E size \in CanvasSizes : width = size.width /\ height = size.height
    /\ cropSettings = Settings(TRUE, TRUE)
    /\ hasOnChange = TRUE
    /\ image \in {img \in ImageSizes : img.cached}
    /\ imageComplete = TRUE
    /\ mounted = FALSE
    /\ onloadPending = FALSE
    /\ crop = InitialCrop
    /\ zoom = I(1)
    /\ interaction = NoInteraction
    /\ backgroundColor = "#ffffff"
    /\ cursor = "default"
    /\ canvas = BlankCanvas
    /\ lastChange = NoChange
    /\ allowedTypes = <<>>
    /\ customValidator = "null"
    /\ files = <<>>
    /\ selectedFiles = <<>>
    /\ error = ""
    /\ reported = <<>>
    /\ notified = FALSE
    /\ event = NoEvent
    /\ nextId = 1
    /\ call = NoCall
    /\ returned = FALSE
    /\ result = ZeroRect

GeometryNext ==
    \/ Mount
    \/ MouseDown
    \/ MouseMove
    \/ handleMouseUp
    \/ SliderChange

SpecGeometry == GeometryInit /\ [][GeometryNext]_vars

\* FileUpload
UploadInit ==
    /\ allowedTypes \in {<<>>, <<"image/png", "image/jpeg">>}
    /\ customValidator \in {"null", "validator"}
    /\ files = <<>>
    /\ selectedFiles = <<>>
    /\ error = ""
    /\ reported = <<>>
    /\ notified = FALSE
    /\ event = NoEvent
    /\ nextId = 1
    /\ \E size \in CanvasSizes : width = size.width /\ height = size.height
    /\ cropSettings = Settings(TRUE, TRUE)
    /\ hasOnChange = TRUE
    /\ image \in {img \in ImageSizes : img.cached}
    /\ imageComplete = TRUE
    /\ mounted = FALSE
    /\ onloadPending = FALSE
    /\ crop = InitialCrop
    /\ zoom = I(1)
    /\ interaction = NoInteraction
    /\ backgroundColor = "#ffffff"
    /\ cursor = "default"
    /\ canvas = BlankCanvas
    /\ lastChange = NoChange
    /\ call = NoCall
    /\ returned = FALSE
    /\ result = ZeroRect

UploadNext == SelectFiles \/ RemoveFile

SpecUpload == UploadInit /\ [][UploadNext]_vars

\* the geometry helpers
PureInit ==
    /\ call \in Calls
    /\ returned = FALSE
    /\ result = ZeroRect
    /\ \E size \in CanvasSizes : width = size.width /\ height = size.height
    /\ cropSettings = Settings(TRUE, TRUE)
    /\ hasOnChange = TRUE
    /\ image \in {img \in ImageSizes : img.cached}
    /\ imageComplete = TRUE
    /\ mounted = FALSE
    /\ onloadPending = FALSE
    /\ crop = InitialCrop
    /\ zoom = I(1)
    /\ interaction = NoInteraction
    /\ backgroundColor = "#ffffff"
    /\ cursor = "default"
    /\ canvas = BlankCanvas
    /\ lastChange = NoChange
    /\ allowedTypes = <<>>
    /\ customValidator = "null"
    /\ files = <<>>
    /\ selectedFiles = <<>>
    /\ error = ""
    /\ reported = <<>>
    /\ notified = FALSE
    /\ event = NoEvent
    /\ nextId = 1

PureNext == CallImageDimensions \/ CallCropArea \/ CallCropHandles \/ CallSourceRect

SpecPure == PureInit /\ [][PureNext]_vars

\* ------------------------------------------------------------------------
\* resizeCrop applied as handleMouseMove calls it
\* ------------------------------------------------------------------------
\* crop rectangles of the canvas's aspect ratio inside an 800 x 400 canvas: the
\* initial one, the smallest and the largest the slider gives, and one at the
\* left edge
ResizeRects == {[x |-> I(200), y |-> I(100), width |-> I(400), height |-> I(200)],
                [x |-> I(395), y |-> Q(395, 2), width |-> I(10), height |-> I(5)],
                [x |-> I(0), y |-> I(0), width |-> I(800), height |-> I(400)],
                [x |-> I(0), y |-> I(100), width |-> I(400), height |-> I(200)]}

\* pointer positions over the canvas, its edges included
ResizePointers == {[x |-> I(200 * i), y |-> I(100 * j)] : i \in 0..4, j \in 0..4}

ResizeCalls ==
    [fn : {"resizeCrop"}, pointer : ResizePointers, pixelCrop : ResizeRects,
     handle : HandlerNames]

\* the resize branch of handleMouseMove: resizeCrop with the component's
\* canvas size, aspect ratio and width limits
CallResizeCrop ==
    /\ call.fn = "resizeCrop" /\ ~returned
    /\ result' = resizeCrop(call.pointer.x, call.pointer.y, call.pixelCrop, call.handle,
                            width, height, aspectRatio,
                            Limits.MIN_CROP_WIDTH, Limits.MAX_CROP_WIDTH)
    /\ returned' = TRUE
    /\ UNCHANGED <<cropperVars, uploadVars, call>>

ResizeInit ==
    /\ call \in ResizeCalls
    /\ returned = FALSE
    /\ result = ZeroRect
    /\ \E size \in CanvasSizes : width = size.width /\ height = size.height
    /\ cropSettings = Settings(TRUE, TRUE)
    /\ hasOnChange = TRUE
    /\ image \in {img \in ImageSizes : img.cached}
    /\ imageComplete = TRUE
    /\ mounted = FALSE
    /\ onloadPending = FALSE
    /\ crop = InitialCrop
    /\ zoom = I(1)
    /\ interaction = NoInteraction
    /\ backgroundColor = "#ffffff"
    /\ cursor = "default"
    /\ canvas = BlankCanvas
    /\ lastChange = NoChange
    /\ allowedTypes = <<>>
    /\ customValidator = "null"
    /\ files = <<>>
    /\ selectedFiles = <<>>
    /\ error = ""
    /\ reported = <<>>
    /\ notified = FALSE
    /\ event = NoEvent
    /\ nextId = 1

ResizeNext == CallResizeCrop

SpecResize == ResizeInit /\ [][ResizeNext]_vars

\* ------------------------------------------------------------------------
\* Claims
\* ------------------------------------------------------------------------
Returned(fn) == call.fn = fn /\ returned

\* C4: getCropHandles returns exactly eight handles named tl, tr, bl, br, t,
\* b, l, r, the first four at the corners of the crop rectangle and the last
\* four at the midpoints of its edges, and resizeCrop has a rule for each name.
C4_EightHandles ==
    Returned("getCropHandles") =>
        LET c == call.cropArea
            right == Add(c.x, c.width)
            bottom == Add(c.y, c.height)
            midX == Div(Add(c.x, right), I(2))
            midY == Div(Add(c.y, bottom), I(2))
        IN  /\ Len(result) = 8
            /\ [i \in 1..8 |-> result[i].name] = <<"tl", "tr", "bl", "br", "t", "b", "l", "r">>
            /\ Cardinality({result[i].name : i \in 1..8}) = 8
            /\ [i \in 1..4 |-> <<result[i].x, result[i].y>>]
                 = << <<c.x, c.y>>, <<right, c.y>>, <<c.x, bottom>>, <<right, bottom>> >>
            /\ [i \in 1..4 |-> <<result[i + 4].x, result[i + 4].y>>]
                 = << <<midX, c.y>>, <<midX, bottom>>, <<c.x, midY>>, <<right, midY>> >>
            /\ \A i \in 1..8 : result[i].name \in HandlerNames

C4_Witness ==
    /\ Returned("getCropHandles")
    /\ call.cropArea.height.d # 1
    /\ Len(result) = 8

\* the canvas point a point of the image lands on when the image is drawn
\* into the rectangle draw: drawImage scales the image to the rectangle
DrawnAt(p, draw, img) ==
    [x |-> Add(draw.x, Div(Mul(p.x, draw.width), img.width)),
     y |-> Add(draw.y, Div(Mul(p.y, draw.height), img.height))]

\* C5: the source rectangle of triggerOnChange is the pre-image of the crop
\* rectangle under the transform renderCanvas draws the image with: its
\* corners, mapped through the draw transform, are the corners of the crop.
C5_SourceIsPreimage ==
    Returned("sourceRect") =>
        LET src == result.src
            c == call.pixelCrop
            topLeft == DrawnAt([x |-> src.x, y |-> src.y], result.draw, call.image)
            bottomRight == DrawnAt([x |-> Add(src.x, src.width), y |-> Add(src.y, src.height)],
                                   result.draw, call.image)
        IN  /\ topLeft = [x |-> c.x, y |-> c.y]
            /\ bottomRight = [x |-> Add(c.x, c.width), y |-> Add(c.y, c.height)]

C5_Witness ==
    /\ Returned("sourceRect")
    /\ call.zoom = Q(11, 10)
    /\ result.draw.y # I(0)
    /\ result.src.x # call.pixelCrop.x

\* C6: for an image of positive width and height, calculateImageDimensions
\* returns a rectangle that fits inside the canvas, touching it in at least
\* one dimension, keeps the aspect ratio of the image, and is centred.
C6_FitsKeepsRatioCentred ==
    Returned("calculateImageDimensions") =>
        LET cw == call.canvas.width
            ch == call.canvas.height
        IN  /\ Le(result.renderWidth, cw)
            /\ Le(result.renderHeight, ch)
            /\ result.renderWidth = cw \/ result.renderHeight = ch
            /\ Mul(result.renderWidth, call.image.height)
                 = Mul(result.renderHeight, call.image.width)
            /\ Add(result.offsetX, Add(result.renderWidth, result.offsetX)) = cw
            /\ Add(result.offsetY, Add(result.renderHeight, result.offsetY)) = ch
            /\ Le(I(0), result.offsetX)
            /\ Le(I(0), result.offsetY)

C6_Witness ==
    /\ Returned("calculateImageDimensions")
    /\ result.renderWidth = call.canvas.width
    /\ Lt(result.renderHeight, call.canvas.height)
    /\ Lt(I(0), result.offsetY)

PixelCrop == getPixelCrop(crop)

\* the latest onChange call carried the current state
ReportedCurrentState ==
    /\ lastChange # NoChange
    /\ lastChange.zoomLevel = zoom
    /\ lastChange.backgroundColor = backgroundColor
    /\ lastChange.croppedImage = CroppedImage(crop, zoom, backgroundColor)
    /\ \A k \in DOMAIN cropSettings \ {"croppedImage", "zoomLevel", "backgroundColor"} :
          lastChange[k] = cropSettings[k]

\* C1: once the crop or the zoom has changed (crop initialisation, drag,
\* resize, slider, zoom in/out) and the image is loaded, the latest onChange
\* call carries the current zoom and background colour, the image cropped
\* from the current crop and every field of cropSettings.  Stated for a
\* component with cropping enabled and an onChange callback.
C1_ChangeReported ==
    (/\ mounted /\ imageComplete
     /\ cropSettings.enabled /\ hasOnChange
     /\ (crop # InitialCrop \/ zoom # I(1)))
        => ReportedCurrentState

\* a step that is not a mouse-up or mouse-leave ending an interaction, while
\* the image stays incomplete
EventWhileLoading ==
    /\ mounted /\ ~imageComplete /\ ~imageComplete'
    /\ ~(interaction # NoInteraction /\ interaction' = NoInteraction)

\* C2: while the image has not finished loading, a mouse-down, mouse-move,
\* zoom or slider event leaves crop, zoom and interaction unchanged, draws
\* nothing on the canvas and emits no onChange.
C2_EventsIgnoredWhileLoading ==
    [][EventWhileLoading =>
          /\ crop' = crop /\ zoom' = zoom /\ interaction' = interaction
          /\ canvas' = canvas /\ lastChange' = lastChange]_vars

\* C3: the crop rectangle lies inside the canvas.
C3_CropInsideCanvas ==
    /\ Le(I(0), PixelCrop.x)
    /\ Le(I(0), PixelCrop.y)
    /\ Le(Add(PixelCrop.x, PixelCrop.width), width)
    /\ Le(Add(PixelCrop.y, PixelCrop.height), height)

\* C7: the pixel width of the crop lies between MIN_CROP_WIDTH and
\* MAX_CROP_WIDTH.
C7_WidthWithinLimits ==
    /\ Le(Limits.MIN_CROP_WIDTH, PixelCrop.width)
    /\ Le(PixelCrop.width, Limits.MAX_CROP_WIDTH)

\* a selection the limit test of C9 rejects
OverLimit == event.op = "select" /\ Len(event.before) + Len(event.newFiles) > maxFiles

\* C9: the number of selected files never exceeds maxFiles; a selection with
\* selectedFiles.length + newFiles.length > maxFiles is rejected as a whole:
\* the error is the 'You can only upload up to maxFiles files.' message,
\* onFilesChange is not called and the selected files are unchanged.
C9_AtMostMaxFiles ==
    /\ Len(selectedFiles) <= maxFiles
    /\ OverLimit =>
          /\ error = "You can only upload up to " \o ToString(maxFiles) \o " files."
          /\ ~notified
          /\ selectedFiles = event.before

C9_Witness ==
    /\ OverLimit
    /\ Len(selectedFiles) = maxFiles
    /\ Len(event.newFiles) = 1

\* validateFile returns null, as C10 words it
Accepted(file) ==
    /\ Len(allowedTypes) # 0 => \E i \in DOMAIN allowedTypes : allowedTypes[i] = file.type
    /\ file.size <= maxFileSize
    /\ ~(customValidator # "null" /\ file.flagged)

\* the messages of the rejected files of a selection, in order
RECURSIVE RejectionMessages(_)
RejectionMessages(newFiles) ==
    IF newFiles = <<>> THEN <<>>
    ELSE (IF Accepted(Head(newFiles)) THEN <<>> ELSE <<validateFile(Head(newFiles))>>)
         \o RejectionMessages(Tail(newFiles))

\* C10: for a selection within the limit, onFilesChange receives the selected
\* files followed, in their order, by the new files validateFile accepts; the
\* error is the comma-joined messages of the rejected files, and is empty
\* exactly when no new file was rejected.
C10_ValidFilesAppended ==
    (event.op = "select" /\ ~OverLimit) =>
        /\ notified
        /\ reported = event.before \o SelectSeq(event.newFiles, Accepted)
        /\ error = Join(RejectionMessages(event.newFiles), ", ")
        /\ error = "" <=> \A i \in DOMAIN event.newFiles : Accepted(event.newFiles[i])

C10_Witness ==
    /\ event.op = "select" /\ ~OverLimit
    /\ Len(event.before) = 1
    /\ Len(event.newFiles) = 2
    /\ ~Accepted(event.newFiles[1])
    /\ Accepted(event.newFiles[2])
    /\ event.newFiles[2].size = maxFileSize
    /\ Len(reported) = 2
    /\ error # ""

\* the edges and the centre of a rectangle
RightOf(r) == Add(r.x, r.width)
BottomOf(r) == Add(r.y, r.height)
CentreXOf(r) == Add(r.x, Div(r.width, I(2)))
CentreYOf(r) == Add(r.y, Div(r.height, I(2)))

\* the anchor opposite to a handle is where it was
AnchorKept(handle, before, after) ==
    CASE handle = "br" -> after.x = before.x /\ after.y = before.y
      [] handle = "tl" -> RightOf(after) = RightOf(before) /\ BottomOf(after) = BottomOf(before)
      [] handle = "tr" -> after.x = before.x /\ BottomOf(after) = BottomOf(before)
      [] handle = "bl" -> RightOf(after) = RightOf(before) /\ after.y = before.y
      [] handle = "r" -> after.x = before.x /\ CentreYOf(after) = CentreYOf(before)
      [] handle = "l" -> RightOf(after) = RightOf(before) /\ CentreYOf(after) = CentreYOf(before)
      [] handle = "b" -> after.y = before.y /\ CentreXOf(after) = CentreXOf(before)
      [] handle = "t" -> BottomOf(after) = BottomOf(before) /\ CentreXOf(after) = CentreXOf(before)

\* C11: a resize step keeps the anchor opposite to the dragged handle fixed,
\* for every pointer position, those where the size is clamped included: br
\* the top-left corner, tl the bottom-right, tr the bottom-left, bl the
\* top-right; r the left edge and l the right edge with the vertical centre;
\* b the top edge and t the bottom edge with the horizontal centre.
C11_AnchorFixed ==
    Returned("resizeCrop") => AnchorKept(call.handle, call.pixelCrop, result)

\* C12: a mouse-up or a mouse-leave always sets the interaction to null, and
\* a mouse-move while the interaction is null leaves crop, zoom and
\* interaction unchanged (only the cursor style may change).
C12_PointerOnlyDuringInteraction ==
    [][/\ handleMouseUp => interaction' = NoInteraction
       /\ (interaction = NoInteraction /\ MouseMoveCoarse) =>
             /\ crop' = crop /\ zoom' = zoom /\ interaction' = interaction
             /\ canvas' = canvas /\ lastChange' = lastChange]_vars

\* no interaction, after the pointer has moved over a handle or the crop; the
\* crop and the zoom have been changed before
C12_Witness ==
    /\ mounted
    /\ interaction = NoInteraction
    /\ cursor \in {"move", "ns-resize"}
    /\ crop # InitialCrop
    /\ zoom = Q(6, 5)

====
